---- MODULE Spec2Model ----
(***************************************************************************)
(* Model of the field-resolution and time-series construction layer of     *)
(* fitkit: merge_fit.py (_as_dt, _field_value_from_fields, msg_value,      *)
(* extract_polar_hr_series) and pm5_readout.py (field_by_name,             *)
(* value_from_msg).                                                        *)
(*                                                                         *)
(* Python values are records of one shape:                                 *)
(*   kind  : "none" | "int" | "float" | "datetime" | "noattr" | "unbound"  *)
(*   n     : the integer (int), the numerator in half units (float), or    *)
(*           the wall-clock seconds since 1970-01-01 (datetime)            *)
(*   us    : the microsecond part of a datetime                            *)
(*   aware : the datetime carries a tzinfo                                 *)
(*   off   : the utcoffset of that tzinfo, in seconds                      *)
(*   w     : the object is a holder exposing the value through `.value`    *)
(***************************************************************************)
EXTENDS Integers, Sequences, FiniteSets, TLC

VARIABLES records, hr_by_time, record_msgs, record_with_hr, ts, pc, err,
          q_msg, q_name, q_mv, q_vfm, q_done,
          n_x, n_y, n_z, n_stage

vars == <<records, hr_by_time, record_msgs, record_with_hr, ts, pc, err,
          q_msg, q_name, q_mv, q_vfm, q_done, n_x, n_y, n_z, n_stage>>

\* ---------------------------------------------------------------- bounds
MaxRecords == 3

MaxMs == 2100

\* ------------------------------------------------------- program constants
MsPerSecond == 1000

\* ------------------------------------------------------------------ values
Val(kind, n, us, aware, off, w) ==
    [kind |-> kind, n |-> n, us |-> us, aware |-> aware, off |-> off, w |-> w]

None == Val("none", 0, 0, FALSE, 0, FALSE)

IntVal(n) == Val("int", n, 0, FALSE, 0, FALSE)

Float(halves) == Val("float", halves, 0, FALSE, 0, FALSE)

Datetime(sec, us, off) == Val("datetime", sec, us, TRUE, off, FALSE)

NaiveDatetime(sec, us) == Val("datetime", sec, us, FALSE, 0, FALSE)

NoAttr == Val("noattr", 0, 0, FALSE, 0, FALSE)

Unbound == Val("unbound", 0, 0, FALSE, 0, FALSE)

\* an object whose `.value` is v
Holder(v) == [v EXCEPT !.w = TRUE]

HasValueAttr(v) == v.w

ValueOf(v) == [v EXCEPT !.w = FALSE]

IsNone(v) == v.kind = "none" /\ ~v.w

IsInt(v) == v.kind = "int" /\ ~v.w

IsDatetime(v) == v.kind = "datetime" /\ ~v.w

\* int(x): an int is itself, a float is truncated toward zero
IntOf(v) ==
    IF v.kind = "int" THEN v.n
    ELSE IF v.n >= 0 THEN v.n \div 2 ELSE -((-v.n) \div 2)

\* the instant an aware datetime denotes, in microseconds since the epoch
Instant(d) == (d.n - d.off) * 1000000 + d.us

\* datetime.__eq__ / __hash__: aware datetimes compare by instant, naive ones
\* by wall clock, and an aware one never equals a naive one
DtEq(a, b) ==
    IF a.aware /\ b.aware THEN Instant(a) = Instant(b)
    ELSE IF ~a.aware /\ ~b.aware THEN a.n = b.n /\ a.us = b.us
    ELSE FALSE

\* ------------------------------------------------------------------ _as_dt
FromTimestampMs(ms) ==
    Datetime(ms \div MsPerSecond, (ms % MsPerSecond) * 1000, 0)

ReplaceTzUTC(x) == [x EXCEPT !.aware = TRUE, !.off = 0]

_as_dt_replace_always(x) ==
    IF IsNone(x) THEN None
    ELSE IF IsDatetime(x) THEN ReplaceTzUTC(x)
    ELSE FromTimestampMs(IntOf(x))

_as_dt(x) ==
    IF IsNone(x) THEN None
    ELSE IF IsDatetime(x) THEN (IF x.aware THEN x ELSE ReplaceTzUTC(x))
    ELSE FromTimestampMs(IntOf(x))

\* ---------------------------------------------------------------- messages
\* A decoded message: None, or an object with an optional `name`, direct
\* attributes (NoAttr where the object has no attribute of that name) and an
\* optional `fields` list of field objects.
FieldNames == {"timestamp", "heart_rate", "power"}

Field(hasName, name, hasValue, value, hasRaw, raw_value) ==
    [hasName |-> hasName, name |-> name, hasValue |-> hasValue,
     value |-> value, hasRaw |-> hasRaw, raw_value |-> raw_value]

Msg(name, tsAttr, hrAttr, hasFields, fields) ==
    [isNone |-> FALSE, hasName |-> TRUE, name |-> name,
     attrs |-> [f \in FieldNames |-> IF f = "timestamp" THEN tsAttr
                                     ELSE IF f = "heart_rate" THEN hrAttr
                                     ELSE NoAttr],
     hasFields |-> hasFields, fields |-> fields]

NoneMsg == [Msg("", NoAttr, NoAttr, FALSE, <<>>) EXCEPT !.isNone = TRUE, !.hasName = FALSE]

NamelessMsg(tsAttr, hrAttr) == [Msg("", tsAttr, hrAttr, FALSE, <<>>) EXCEPT !.hasName = FALSE]

\* hasattr(msg, field_name)
HasAttr(msg, field_name) == ~msg.isNone /\ msg.attrs[field_name].kind # "noattr"

\* getattr(f, "name", None) == field_name
FieldNamed(f, field_name) == f.hasName /\ f.name = field_name

\* index of the first field of msg.fields with that name, 0 if there is none
FirstField(msg, field_name) ==
    LET hits == {i \in 1..Len(msg.fields) : FieldNamed(msg.fields[i], field_name)}
    IN IF hits = {} THEN 0 ELSE CHOOSE i \in hits : \A j \in hits : i <= j

\* ------------------------------------------------- merge_fit.py resolvers
_field_value_from_fields_any_name(msg, field_name) ==
    IF msg.isNone \/ ~msg.hasFields THEN None
    ELSE IF Len(msg.fields) = 0 THEN None
    ELSE LET f == msg.fields[1]
         IN IF f.hasValue THEN f.value
            ELSE IF f.hasRaw THEN f.raw_value
            ELSE None

_field_value_from_fields(msg, field_name) ==
    IF msg.isNone \/ ~msg.hasFields THEN None
    ELSE LET i == FirstField(msg, field_name)
         IN IF i = 0 THEN None
            ELSE LET f == msg.fields[i]
                 IN IF f.hasValue THEN f.value
                    ELSE IF f.hasRaw THEN f.raw_value
                    ELSE None

msg_value(msg, field_name) ==
    IF msg.isNone THEN None
    ELSE IF HasAttr(msg, field_name) THEN msg.attrs[field_name]
    ELSE _field_value_from_fields(msg, field_name)

\* ----------------------------------------------- pm5_readout.py resolvers
\* field_by_name returns the field object; here its index in msg.fields,
\* 0 standing for None
field_by_name(msg, name) ==
    IF msg.isNone \/ ~msg.hasFields THEN 0
    ELSE FirstField(msg, name)

value_from_msg(msg, name) ==
    IF msg.isNone THEN None
    ELSE IF HasAttr(msg, name)
         THEN LET v == msg.attrs[name]
              IN IF HasValueAttr(v) THEN ValueOf(v) ELSE v
    ELSE LET f == field_by_name(msg, name)
         IN IF f = 0 THEN None
            ELSE IF msg.fields[f].hasValue THEN msg.fields[f].value ELSE None

\* ------------------------------------------------------------ record source
\* ff.records: each record has a header, whose is_definition flag may be
\* missing, and a message
Rec(hasFlag, isDef, msg) ==
    [has_is_definition |-> hasFlag, is_definition |-> isDef, message |-> msg]

TsAttrs ==
    {None, IntVal(1000), IntVal(2000), Datetime(3602, 0, 3600),
     NaiveDatetime(1, 0), Holder(IntVal(1000))}

HrAttrs == {None, IntVal(120), IntVal(130), Holder(IntVal(120))}

DirectRecords ==
    {Rec(TRUE, FALSE, Msg("record", t, h, TRUE, <<>>)) : t \in TsAttrs, h \in HrAttrs}

FallbackRecords ==
    {Rec(TRUE, FALSE, Msg("record", NoAttr, NoAttr, TRUE,
         <<Field(TRUE, "timestamp", TRUE, IntVal(2000), TRUE, IntVal(2000)),
           Field(TRUE, "heart_rate", TRUE, IntVal(130), FALSE, None)>>)),
     Rec(TRUE, FALSE, Msg("record", NoAttr, NoAttr, TRUE,
         <<Field(FALSE, "", TRUE, IntVal(5), FALSE, None),
           Field(TRUE, "timestamp", FALSE, None, TRUE, IntVal(1000)),
           Field(TRUE, "heart_rate", FALSE, None, FALSE, None)>>))}

OtherRecords ==
    {Rec(TRUE, TRUE, Msg("record", IntVal(1000), IntVal(120), TRUE, <<>>)),
     Rec(FALSE, FALSE, Msg("record", IntVal(2000), IntVal(130), TRUE, <<>>)),
     Rec(TRUE, FALSE, Msg("event", IntVal(1000), IntVal(120), TRUE, <<>>)),
     Rec(TRUE, FALSE, NamelessMsg(IntVal(1000), IntVal(120))),
     Rec(TRUE, FALSE, NoneMsg)}

Records == DirectRecords \cup FallbackRecords \cup OtherRecords

\* -------------------------------------------------------------------- dict
\* hr_by_time is a dict: a sequence of entries in insertion order; keys are
\* compared as datetime compares them
KeyIndex(d, k) ==
    LET hits == {i \in 1..Len(d) : DtEq(d[i].k, k)}
    IN IF hits = {} THEN 0 ELSE CHOOSE i \in hits : TRUE

DictSet(d, k, v) ==
    IF KeyIndex(d, k) = 0 THEN Append(d, [k |-> k, v |-> v])
    ELSE [d EXCEPT ![KeyIndex(d, k)].v = v]

\* ------------------------------------------------ extract_polar_hr_series
\* getattr(rec.header, "is_definition", False)
IsDefinition_never(rec) == FALSE

IsDefinition(rec) == rec.has_is_definition /\ rec.is_definition

\* getattr(msg, "name", None) == "record"
IsRecordMsg(msg) == ~msg.isNone /\ msg.hasName /\ msg.name = "record"

\* the local `ts` after lines 89-91: assigned only when raw_ts is an int
TsAfter_typed_as_is(raw_ts, old) ==
    IF IsInt(raw_ts) THEN _as_dt(raw_ts)
    ELSE IF IsDatetime(raw_ts) THEN raw_ts
    ELSE old

TsAfter(raw_ts, old) == IF IsInt(raw_ts) THEN _as_dt(raw_ts) ELSE old

\* int(hr) succeeds on an int or a float
Coercible(hr) == hr.kind \in {"int", "float"} /\ ~hr.w

Looping == pc = "loop" /\ Len(records) < MaxRecords

Idle ==
    /\ q_msg = NoneMsg /\ q_name = "" /\ q_mv = None /\ q_vfm = None /\ q_done = {}
    /\ n_x = None /\ n_y = None /\ n_z = None /\ n_stage = 0

IdleExtract ==
    /\ records = <<>> /\ hr_by_time = <<>> /\ record_msgs = 0
    /\ record_with_hr = 0 /\ ts = Unbound /\ pc = "idle" /\ err = "none"

Init ==
    /\ records = <<>>
    /\ hr_by_time = <<>>
    /\ record_msgs = 0
    /\ record_with_hr = 0
    /\ ts = Unbound
    /\ pc = "loop"
    /\ err = "none"
    /\ Idle

\* line 80-81: a definition record is skipped
SkipDefinition(rec) ==
    /\ Looping
    /\ IsDefinition(rec)
    /\ records' = Append(records, rec)
    /\ UNCHANGED <<hr_by_time, record_msgs, record_with_hr, ts, pc, err>>

\* line 83-85: a message that is not named "record" is skipped
SkipOtherMessage(rec) ==
    /\ Looping
    /\ ~IsDefinition(rec)
    /\ ~IsRecordMsg(rec.message)
    /\ records' = Append(records, rec)
    /\ UNCHANGED <<hr_by_time, record_msgs, record_with_hr, ts, pc, err>>

\* line 87-94: `ts` was never assigned; reading it raises UnboundLocalError
RaiseUnbound(rec) ==
    /\ Looping
    /\ ~IsDefinition(rec)
    /\ IsRecordMsg(rec.message)
    /\ LET t == TsAfter(msg_value(rec.message, "timestamp"), ts)
       IN /\ t.kind = "unbound"
          /\ ts' = t
    /\ records' = Append(records, rec)
    /\ record_msgs' = record_msgs + 1
    /\ pc' = "raised"
    /\ err' = "UnboundLocalError"
    /\ UNCHANGED <<hr_by_time, record_with_hr>>

\* line 87-95: ts or hr is None, the record is passed over
SkipIncomplete(rec) ==
    /\ Looping
    /\ ~IsDefinition(rec)
    /\ IsRecordMsg(rec.message)
    /\ LET t  == TsAfter(msg_value(rec.message, "timestamp"), ts)
           hr == msg_value(rec.message, "heart_rate")
       IN /\ t.kind # "unbound"
          /\ IsNone(t) \/ IsNone(hr)
          /\ ts' = t
    /\ records' = Append(records, rec)
    /\ record_msgs' = record_msgs + 1
    /\ UNCHANGED <<hr_by_time, record_with_hr, pc, err>>

\* line 87-98: the sample is stored under ts
StoreSample(rec) ==
    /\ Looping
    /\ ~IsDefinition(rec)
    /\ IsRecordMsg(rec.message)
    /\ LET t  == TsAfter(msg_value(rec.message, "timestamp"), ts)
           hr == msg_value(rec.message, "heart_rate")
       IN /\ t.kind # "unbound"
          /\ ~IsNone(t) /\ ~IsNone(hr)
          /\ Coercible(hr)
          /\ ts' = t
          /\ hr_by_time' = DictSet(hr_by_time, t, IntOf(hr))
    /\ records' = Append(records, rec)
    /\ record_msgs' = record_msgs + 1
    /\ record_with_hr' = record_with_hr + 1
    /\ UNCHANGED <<pc, err>>

\* line 97-98: int(hr) raises TypeError on an object that is not a number
RaiseCoercion(rec) ==
    /\ Looping
    /\ ~IsDefinition(rec)
    /\ IsRecordMsg(rec.message)
    /\ LET t  == TsAfter(msg_value(rec.message, "timestamp"), ts)
           hr == msg_value(rec.message, "heart_rate")
       IN /\ t.kind # "unbound"
          /\ ~IsNone(t) /\ ~IsNone(hr)
          /\ ~Coercible(hr)
          /\ ts' = t
    /\ records' = Append(records, rec)
    /\ record_msgs' = record_msgs + 1
    /\ record_with_hr' = record_with_hr + 1
    /\ pc' = "raised"
    /\ err' = "TypeError"
    /\ UNCHANGED hr_by_time

\* line 100-105: the records are exhausted and nothing was extracted
RaiseEmpty ==
    /\ pc = "loop"
    /\ hr_by_time = <<>>
    /\ pc' = "raised"
    /\ err' = "RuntimeError"
    /\ UNCHANGED <<records, hr_by_time, record_msgs, record_with_hr, ts>>

\* line 107-111: the records are exhausted and the dict is returned
Return ==
    /\ pc = "loop"
    /\ hr_by_time # <<>>
    /\ pc' = "returned"
    /\ UNCHANGED <<records, hr_by_time, record_msgs, record_with_hr, ts, err>>

qvars == <<q_msg, q_name, q_mv, q_vfm, q_done>>

nvars == <<n_x, n_y, n_z, n_stage>>

xvars == <<records, hr_by_time, record_msgs, record_with_hr, ts, pc, err>>

Next ==
    \/ \E rec \in Records : SkipDefinition(rec) /\ UNCHANGED <<qvars, nvars>>
    \/ \E rec \in Records : SkipOtherMessage(rec) /\ UNCHANGED <<qvars, nvars>>
    \/ \E rec \in Records : RaiseUnbound(rec) /\ UNCHANGED <<qvars, nvars>>
    \/ \E rec \in Records : SkipIncomplete(rec) /\ UNCHANGED <<qvars, nvars>>
    \/ \E rec \in Records : StoreSample(rec) /\ UNCHANGED <<qvars, nvars>>
    \/ \E rec \in Records : RaiseCoercion(rec) /\ UNCHANGED <<qvars, nvars>>
    \/ RaiseEmpty /\ UNCHANGED <<qvars, nvars>>
    \/ Return /\ UNCHANGED <<qvars, nvars>>

Spec == Init /\ [][Next]_vars

\* ------------------------------------------------------ resolver harness
\* msg_value and value_from_msg applied to one message and one field name
ProbeMsgs ==
    {r.message : r \in Records} \cup
    {Msg("record", NoAttr, NoAttr, FALSE, <<>>),
     Msg("record", Holder(None), Holder(IntVal(130)), TRUE, <<>>),
     Msg("record", NoAttr, NoAttr, TRUE,
         <<Field(TRUE, "timestamp", TRUE, None, TRUE, IntVal(1000)),
           Field(TRUE, "heart_rate", TRUE, Holder(IntVal(120)), FALSE, None),
           Field(TRUE, "heart_rate", TRUE, IntVal(130), FALSE, None)>>)}

InitResolve ==
    /\ q_msg \in ProbeMsgs
    /\ q_name \in FieldNames
    /\ q_mv = None /\ q_vfm = None /\ q_done = {}
    /\ IdleExtract
    /\ n_x = None /\ n_y = None /\ n_z = None /\ n_stage = 0

CallMsgValue ==
    /\ "msg_value" \notin q_done
    /\ q_mv' = msg_value(q_msg, q_name)
    /\ q_done' = q_done \cup {"msg_value"}
    /\ UNCHANGED <<q_msg, q_name, q_vfm, xvars, nvars>>

CallValueFromMsg ==
    /\ "value_from_msg" \notin q_done
    /\ q_vfm' = value_from_msg(q_msg, q_name)
    /\ q_done' = q_done \cup {"value_from_msg"}
    /\ UNCHANGED <<q_msg, q_name, q_mv, xvars, nvars>>

NextResolve == CallMsgValue \/ CallValueFromMsg

SpecResolve == InitResolve /\ [][NextResolve]_vars

\* ---------------------------------------------------- normalizer harness
\* _as_dt applied to an input, and again to its own result
NormInputs ==
    {None}
    \cup {IntVal(n) : n \in (-MaxMs)..MaxMs}
    \cup {Float(h) : h \in {-3001, -3, -1, 1, 3, 2001, 3001}}
    \cup {Datetime(s, u, o) : s \in {-1, 0, 1, 3601}, u \in {0, 500000},
                              o \in {-3600, 0, 3600}}
    \cup {NaiveDatetime(s, u) : s \in {-1, 0, 1, 3601}, u \in {0, 500000}}

InitNorm ==
    /\ n_x \in NormInputs
    /\ n_y = None /\ n_z = None /\ n_stage = 0
    /\ IdleExtract
    /\ q_msg = NoneMsg /\ q_name = "" /\ q_mv = None /\ q_vfm = None /\ q_done = {}

Normalize ==
    /\ n_stage = 0
    /\ n_y' = _as_dt(n_x)
    /\ n_stage' = 1
    /\ UNCHANGED <<n_x, n_z, xvars, qvars>>

NormalizeAgain ==
    /\ n_stage = 1
    /\ n_z' = _as_dt(n_y)
    /\ n_stage' = 2
    /\ UNCHANGED <<n_x, n_y, xvars, qvars>>

NextNorm == Normalize \/ NormalizeAgain

SpecNorm == InitNorm /\ [][NextNorm]_vars

\* ================================================================= claims
\* vocabulary of the claims
Last(seq) == seq[Len(seq)]

Consumed == Len(records') = Len(records) + 1

FlaggedDefinition(rec) == rec.has_is_definition /\ rec.is_definition

TargetData(rec) ==
    /\ ~FlaggedDefinition(rec)
    /\ ~rec.message.isNone /\ rec.message.hasName /\ rec.message.name = "record"

\* what a field resolves to, a value holder removed
Resolved(rec, name) ==
    LET v == msg_value(rec.message, name)
    IN IF v.w THEN [v EXCEPT !.w = FALSE] ELSE v

Absent(v) == v.kind = "none"

\* a record the builder is to take a sample from
Qualifies(rec) ==
    /\ TargetData(rec)
    /\ Resolved(rec, "timestamp").kind \in {"int", "datetime"}
    /\ ~Absent(Resolved(rec, "heart_rate"))

CanonicalTs(rec) == _as_dt(Resolved(rec, "timestamp"))

QualifyingAt(k) ==
    {i \in 1..Len(records) : Qualifies(records[i]) /\ DtEq(CanonicalTs(records[i]), k)}

MaxOf(S) == CHOOSE i \in S : \A j \in S : j <= i

\* C1: a data record of type 'record' whose timestamp or heart_rate resolves
\* to absent leaves the Series exactly as it was before the record.
C1_AbsentFieldLeavesSeries ==
    [][(Consumed /\ TargetData(Last(records'))
          /\ (Absent(Resolved(Last(records'), "timestamp"))
              \/ Absent(Resolved(Last(records'), "heart_rate"))))
       => hr_by_time' = hr_by_time]_vars

\* C2: the returned Series has exactly one entry per distinct normalized
\* timestamp of the qualifying records (integer or typed timestamp and a
\* heart_rate, both present), and no other entry.
C2_ExactlyQualifyingTimestamps ==
    pc = "returned" =>
        /\ \A e \in 1..Len(hr_by_time) : QualifyingAt(hr_by_time[e].k) # {}
        /\ \A i \in 1..Len(records) :
              Qualifies(records[i]) =>
                  \E e \in 1..Len(hr_by_time) :
                      DtEq(hr_by_time[e].k, CanonicalTs(records[i]))
        /\ \A e, f \in 1..Len(hr_by_time) :
              DtEq(hr_by_time[e].k, hr_by_time[f].k) => e = f

\* C3: when two or more qualifying records share a canonical timestamp, the
\* value returned at that timestamp is the heart_rate of the latest of them.
C3_LastWriteWins ==
    pc = "returned" =>
        \A e \in 1..Len(hr_by_time) :
            LET Q == QualifyingAt(hr_by_time[e].k)
            IN Cardinality(Q) >= 2 =>
                 hr_by_time[e].v = Resolved(records[MaxOf(Q)], "heart_rate").n

\* C4: over an input without qualifying records the pass ends with the
\* empty-result RuntimeError; a returned Series is never empty.
C4_EmptyResultExactlyWhenNoSamples ==
    /\ (pc \in {"returned", "raised"}
          /\ \A i \in 1..Len(records) : ~Qualifies(records[i]))
       => (pc = "raised" /\ err = "RuntimeError")
    /\ pc = "returned" => hr_by_time # <<>>

\* C5: the only error the pass ends with is the empty-result error raised
\* after the traversal; a missing field is never propagated as an error.
C5_OnlyEmptyResultError ==
    pc = "raised" => (err = "RuntimeError" /\ hr_by_time = <<>>)

\* C6: a record flagged as a definition changes neither the Series nor the
\* 'record messages' and 'records with HR' counters, whatever it carries.
C6_DefinitionNeverContributes ==
    [][(Consumed /\ FlaggedDefinition(Last(records')))
       => (/\ hr_by_time' = hr_by_time
           /\ record_msgs' = record_msgs
           /\ record_with_hr' = record_with_hr)]_vars

C6_Witness ==
    /\ Len(records) >= 2
    /\ FlaggedDefinition(Last(records))
    /\ ~Last(records).message.isNone
    /\ Last(records).message.name = "record"
    /\ Last(records).message.attrs["timestamp"].kind = "int"
    /\ Last(records).message.attrs["heart_rate"].kind = "int"
    /\ Len(hr_by_time) = 1
    /\ record_msgs = Len(records) - 1

\* C7: every key of the Series, at every point of the pass and on return, is
\* a timezone-aware UTC datetime, and two keys are equal iff they denote the
\* same instant; no integer, naive or un-normalized datetime is a key.
C7_KeysCanonicalUTC ==
    /\ \A e \in 1..Len(hr_by_time) :
          LET k == hr_by_time[e].k
          IN k.kind = "datetime" /\ ~k.w /\ k.aware /\ k.off = 0
    /\ \A e, f \in 1..Len(hr_by_time) :
          (hr_by_time[e].k = hr_by_time[f].k)
              <=> (Instant(hr_by_time[e].k) = Instant(hr_by_time[f].k))
    /\ \A e, f \in 1..Len(hr_by_time) :
          (hr_by_time[e].k = hr_by_time[f].k) => e = f

C7_Witness ==
    /\ pc = "returned"
    /\ Len(hr_by_time) = 2
    /\ \E i \in 1..Len(records) :
          /\ TargetData(records[i])
          /\ records[i].message.attrs["timestamp"].kind = "datetime"
          /\ ~records[i].message.attrs["timestamp"].aware
          /\ records[i].message.attrs["heart_rate"].kind = "int"

\* the message has no attribute and no field entry of that name
Lacks(msg, name) ==
    \/ msg.isNone
    \/ /\ msg.attrs[name].kind = "noattr"
       /\ \/ ~msg.hasFields
          \/ \A i \in 1..Len(msg.fields) :
                ~(msg.fields[i].hasName /\ msg.fields[i].name = name)

\* C8: on a None message and on a message lacking the requested field, both
\* msg_value and value_from_msg return None.
C8_MissingFieldResolvesAbsent ==
    Lacks(q_msg, q_name) =>
        /\ "msg_value" \in q_done => q_mv = None
        /\ "value_from_msg" \in q_done => q_vfm = None

C8_Witness ==
    /\ q_done = {"msg_value", "value_from_msg"}
    /\ ~q_msg.isNone /\ q_msg.hasFields /\ Len(q_msg.fields) >= 2
    /\ Lacks(q_msg, q_name)
    /\ q_mv = None /\ q_vfm = None

\* C9: when the message has the field as a direct attribute, msg_value and
\* value_from_msg both return it with one value holder removed, and so agree.
C9_DirectAttributeUnwrapped ==
    (~q_msg.isNone /\ q_msg.attrs[q_name].kind # "noattr") =>
        LET a == q_msg.attrs[q_name]
            u == IF a.w THEN [a EXCEPT !.w = FALSE] ELSE a
        IN /\ "msg_value" \in q_done => q_mv = u
           /\ "value_from_msg" \in q_done => q_vfm = u

\* C10: _as_dt is idempotent on integer epoch milliseconds; an aware datetime
\* is returned unchanged, a naive one gets UTC attached with the same wall
\* clock, and None maps to None.
C10_NormalizerIdempotent ==
    /\ (n_stage = 2 /\ n_x.kind = "int") =>
          (n_z.aware /\ n_y.aware /\ Instant(n_z) = Instant(n_y))
    /\ (n_stage >= 1 /\ n_x.kind = "datetime" /\ n_x.aware) => n_y = n_x
    /\ (n_stage >= 1 /\ n_x.kind = "datetime" /\ ~n_x.aware) =>
          (n_y.kind = "datetime" /\ n_y.aware /\ n_y.off = 0
             /\ n_y.n = n_x.n /\ n_y.us = n_x.us)
    /\ (n_stage >= 1 /\ n_x.kind = "none") => n_y.kind = "none"

C10_Witness ==
    /\ n_stage = 2
    /\ n_x = IntVal(1500)
    /\ n_y = Datetime(1, 500000, 0)
    /\ n_z = n_y

====
